---- MODULE Spec2Model ----
(***************************************************************************)
(* A model of the user CRUD service of src/main.go: four gin handlers      *)
(* (createUser, getUser, updateUser, deleteUser) over one MongoDB          *)
(* collection, each wrapped in one tracing span.                           *)
(*                                                                         *)
(* Every request runs in a goroutine of its own.  A handler is cut at its  *)
(* one interaction with shared state, the collection call: the first step  *)
(* is the handler's entry and parse phase (and, where parsing fails, its   *)
(* whole run), the second its collection call, the mapping of the result   *)
(* to a response and the return, at which the deferred span.End() runs.    *)
(* What follows the collection call touches only the goroutine's own       *)
(* locals, so running it in the same step loses no interleaving.  Each     *)
(* collection call is one atomic single-document operation of the store.   *)
(*                                                                         *)
(* A handler that has returned stays in its goroutine's record for one     *)
(* state, in which the request, its response and its span can be read;     *)
(* the server then releases the goroutine.  The release touches nothing    *)
(* but that record, so it commutes with every step of another goroutine    *)
(* and is taken first: no behaviour of the collection is lost by it.       *)
(***************************************************************************)
EXTENDS Integers, Sequences, FiniteSets, TLC

\* ------------------------------------------------------------------ bounds

\* Goroutines that serve requests at the same time (a slot is reused once its
\* request has returned).
MaxInFlight == 2

\* ObjectIDs the driver generates before the model stops accepting creates
\* that need one.
MaxGenerated == 1

\* ------------------------------------------------------- program constants

\* primitive.ObjectID is a [12]byte; its hex form has two digits per byte.
ObjectIDBytes == 12

StatusOK == 200
StatusCreated == 201
StatusBadRequest == 400
StatusNotFound == 404
StatusInternalServerError == 500

\* ------------------------------------------------------------- identifiers

LowerDigits == <<"0", "1", "2", "3", "4", "5", "6", "7", "8", "9",
                 "a", "b", "c", "d", "e", "f">>

UpperDigits == <<"0", "1", "2", "3", "4", "5", "6", "7", "8", "9",
                 "A", "B", "C", "D", "E", "F">>

HexDigits == {LowerDigits[i] : i \in 1..16} \cup {UpperDigits[i] : i \in 1..16}

IsHexDigit(c) == c \in HexDigits

\* The value of each hex digit, either case (encoding/hex's fromHexChar).
DigitValues ==
    [c \in HexDigits |->
        (CHOOSE i \in 1..16 : LowerDigits[i] = c \/ UpperDigits[i] = c) - 1]

HexVal(c) == DigitValues[c]

\* primitive.NilObjectID, the zero value of User.ID.
NilObjectID == [i \in 1..ObjectIDBytes |-> 0]

\* A faulty variant of ObjectIDFromHex: the length is checked, the digits are not (a
\* character that is no hex digit decodes as 0).
ObjectIDFromHexNoDigitCheck(s) ==
    IF Len(s) # 2 * ObjectIDBytes
    THEN [err |-> TRUE, id |-> NilObjectID]
    ELSE [err |-> FALSE,
          id  |-> [i \in 1..ObjectIDBytes |->
                     16 * (IF IsHexDigit(s[2 * i - 1]) THEN HexVal(s[2 * i - 1]) ELSE 0)
                        + (IF IsHexDigit(s[2 * i]) THEN HexVal(s[2 * i]) ELSE 0)]]

\* primitive.ObjectIDFromHex: 24 hex digits of either case decode to 12
\* bytes; any other string is an error.
ObjectIDFromHex(s) ==
    IF Len(s) # 2 * ObjectIDBytes
    THEN [err |-> TRUE, id |-> NilObjectID]
    ELSE IF \E i \in 1..Len(s) : ~IsHexDigit(s[i])
    THEN [err |-> TRUE, id |-> NilObjectID]
    ELSE [err |-> FALSE,
          id  |-> [i \in 1..ObjectIDBytes |->
                     16 * HexVal(s[2 * i - 1]) + HexVal(s[2 * i])]]

\* ObjectID.Hex: 24 lowercase hex digits.
Hex(id) ==
    [i \in 1..(2 * ObjectIDBytes) |->
        IF i % 2 = 1
        THEN LowerDigits[(id[(i + 1) \div 2] \div 16) + 1]
        ELSE LowerDigits[(id[i \div 2] % 16) + 1]]

\* The n-th ObjectID the driver generates for a document inserted without an
\* _id: a 4-byte timestamp, 5 bytes unique to the process, a 3-byte counter.
NewObjectID(n) ==
    [i \in 1..ObjectIDBytes |->
        IF i <= 4 THEN 101
        ELSE IF i <= 9 THEN 171
        ELSE IF i = ObjectIDBytes THEN n
        ELSE 0]

\* ------------------------------------------------------------ request data

ToUpper(c) ==
    IF \E i \in 1..16 : LowerDigits[i] = c
    THEN UpperDigits[CHOOSE i \in 1..16 : LowerDigits[i] = c]
    ELSE c

\* An identifier a client may choose itself: aa...a, never one the driver
\* generates here.
ClientID == [i \in 1..ObjectIDBytes |-> 170]

\* The :id path parameters the requests are drawn from.  gin matches
\* /users/:id only for a non-empty segment, so c.Param("id") is never "".
PathFirst == Hex(NewObjectID(1))
PathClientUpper == [i \in 1..(2 * ObjectIDBytes) |-> ToUpper(Hex(ClientID)[i])]
PathNotHex == [i \in 1..(2 * ObjectIDBytes) |-> IF i = 1 THEN "g" ELSE "0"]
PathShort == SubSeq(PathFirst, 1, 2 * ObjectIDBytes - 1)

ValidPaths == {PathFirst, PathClientUpper}
InvalidPaths == {PathNotHex, PathShort}
Paths == ValidPaths \cup InvalidPaths

\* Request bodies.  syntaxOk is whether the bytes are a JSON object; has is the
\* set of keys the object carries; id, name and email are their values.
Body(ok, has, id, name, email) ==
    [syntaxOk |-> ok, has |-> has, id |-> id, name |-> name, email |-> email]

BodyMalformed == Body(FALSE, {}, <<>>, "", "")
BodyFull == Body(TRUE, {"name", "email"}, <<>>, "A", "a@x.com")
BodyNameOnly == Body(TRUE, {"name"}, <<>>, "B", "")
BodyWithID == Body(TRUE, {"id", "name", "email"}, Hex(ClientID), "C", "c@x.com")

\* The bodies POST /users and PUT /users/:id are drawn from.
CreateBodies == {BodyMalformed, BodyFull, BodyWithID}
UpdateBodies == {BodyMalformed, BodyNameOnly, BodyWithID}
NoBody == Body(TRUE, {}, <<>>, "", "")

\* The User struct: its zero value, and a value of it.
ZeroUser == [ID |-> NilObjectID, Name |-> "", Email |-> ""]
User(id, name, email) == [ID |-> id, Name |-> name, Email |-> email]

\* A faulty variant of ShouldBindJSON: a body that is no JSON leaves the zero User and
\* no error.
ShouldBindJSONIgnoreSyntax(body) ==
    IF ~body.syntaxOk
    THEN [err |-> FALSE, msg |-> "", user |-> ZeroUser]
    ELSE IF "id" \in body.has /\ ObjectIDFromHex(body.id).err
    THEN [err |-> TRUE, msg |-> "cannot unmarshal into an ObjectID", user |-> ZeroUser]
    ELSE [err |-> FALSE, msg |-> "",
          user |-> User(IF "id" \in body.has THEN ObjectIDFromHex(body.id).id
                                              ELSE NilObjectID,
                        IF "name" \in body.has THEN body.name ELSE "",
                        IF "email" \in body.has THEN body.email ELSE "")]

\* c.ShouldBindJSON(&user): decodes the body into a User by the json tags of
\* the struct.  All three fields are bound, id through ObjectID.UnmarshalJSON
\* (a 24-digit hex string); a key the body lacks leaves the zero value.  The
\* struct has no binding tags, so nothing else is validated.
ShouldBindJSON(body) ==
    IF ~body.syntaxOk
    THEN [err |-> TRUE, msg |-> "invalid character", user |-> ZeroUser]
    ELSE IF "id" \in body.has /\ ObjectIDFromHex(body.id).err
    THEN [err |-> TRUE, msg |-> "cannot unmarshal into an ObjectID", user |-> ZeroUser]
    ELSE [err |-> FALSE, msg |-> "",
          user |-> User(IF "id" \in body.has THEN ObjectIDFromHex(body.id).id
                                              ELSE NilObjectID,
                        IF "name" \in body.has THEN body.name ELSE "",
                        IF "email" \in body.has THEN body.email ELSE "")]

\* ----------------------------------------------------------- the collection

\* A stored document, by the bson tags of User.
Doc(id, name, email) == [_id |-> id, name |-> name, email |-> email]

Matching(coll, id) == {d \in coll : d._id = id}

\* A faulty variant of InsertOne: the e-mail address is not stored.
InsertOneDropsEmail(coll, user, n, fail) ==
    LET id == IF user.ID = NilObjectID THEN NewObjectID(n) ELSE user.ID
    IN  IF fail \/ Matching(coll, id) # {}
        THEN [err |-> TRUE, InsertedID |-> NilObjectID, coll |-> coll]
        ELSE [err |-> FALSE, InsertedID |-> id,
              coll |-> coll \cup {Doc(id, user.Name, "")}]

\* collection.InsertOne(ctx, user).  _id is omitempty: a zero ID is left out
\* and the driver generates one (its n-th); any other ID is stored as given.
\* The insert fails when the store does (fail) or when _id is already taken.
InsertOne(coll, user, n, fail) ==
    LET id == IF user.ID = NilObjectID THEN NewObjectID(n) ELSE user.ID
    IN  IF fail \/ Matching(coll, id) # {}
        THEN [err |-> TRUE, InsertedID |-> NilObjectID, coll |-> coll]
        ELSE [err |-> FALSE, InsertedID |-> id,
              coll |-> coll \cup {Doc(id, user.Name, user.Email)}]

\* A faulty variant of FindOne: a lookup that matches nothing reports a plain error.
FindOneNoSentinel(coll, id, fail) ==
    IF fail \/ Matching(coll, id) = {}
    THEN [err |-> "error", user |-> ZeroUser]
    ELSE LET d == CHOOSE d \in Matching(coll, id) : TRUE
         IN  [err |-> "nil", user |-> User(d._id, d.name, d.email)]

\* collection.FindOne(ctx, bson.M{"_id": id}).Decode(&user): err is "nil",
\* "ErrNoDocuments" (mongo.ErrNoDocuments) or "error" (any other).
FindOne(coll, id, fail) ==
    IF fail
    THEN [err |-> "error", user |-> ZeroUser]
    ELSE IF Matching(coll, id) = {}
    THEN [err |-> "ErrNoDocuments", user |-> ZeroUser]
    ELSE LET d == CHOOSE d \in Matching(coll, id) : TRUE
         IN  [err |-> "nil", user |-> User(d._id, d.name, d.email)]

\* A faulty variant of UpdateOne: only fields with a non-empty value are set (a merge).
UpdateOneMerge(coll, id, name, email, fail) ==
    IF fail
    THEN [err |-> TRUE, MatchedCount |-> 0, coll |-> coll]
    ELSE [err |-> FALSE,
          MatchedCount |-> Cardinality(Matching(coll, id)),
          coll |-> {IF d._id = id
                    THEN Doc(d._id, IF name = "" THEN d.name ELSE name,
                                    IF email = "" THEN d.email ELSE email)
                    ELSE d : d \in coll}]

\* A faulty variant of UpdateOne: the filter is dropped, every document is updated.
UpdateOneNoFilter(coll, id, name, email, fail) ==
    IF fail
    THEN [err |-> TRUE, MatchedCount |-> 0, coll |-> coll]
    ELSE [err |-> FALSE,
          MatchedCount |-> Cardinality(Matching(coll, id)),
          coll |-> {Doc(d._id, name, email) : d \in coll}]

\* collection.UpdateOne(ctx, bson.M{"_id": id}, {"$set": {name, email}}): one
\* atomic update of the matching document; no upsert.
UpdateOne(coll, id, name, email, fail) ==
    IF fail
    THEN [err |-> TRUE, MatchedCount |-> 0, coll |-> coll]
    ELSE [err |-> FALSE,
          MatchedCount |-> Cardinality(Matching(coll, id)),
          coll |-> {IF d._id = id THEN Doc(d._id, name, email) ELSE d : d \in coll}]

\* collection.DeleteOne(ctx, bson.M{"_id": id}).
DeleteOne(coll, id, fail) ==
    IF fail
    THEN [err |-> TRUE, DeletedCount |-> 0, coll |-> coll]
    ELSE [err |-> FALSE,
          DeletedCount |-> Cardinality(Matching(coll, id)),
          coll |-> coll \ Matching(coll, id)]

\* ------------------------------------------------------------------- state

VARIABLES
    collection,   \* the documents of testdb.users (the package's collection handle)
    oidCounter,   \* ObjectIDs the driver has generated so far
    reqs,         \* per goroutine: the request it serves and the handler's locals
    lastWrite,    \* history: per _id, the last write the store applied and its request body
    everDeleted   \* history: the _ids a DeleteOne has removed

vars == <<collection, oidCounter, reqs, lastWrite, everDeleted>>

Slots == 1..MaxInFlight

\* What c.JSON writes: the status and the JSON body.  A body is an error
\* object, a message object or a serialized User.
ErrorBody(msg) ==
    [kind |-> "error", text |-> msg, id |-> <<>>, name |-> "", email |-> ""]
MessageBody(msg) ==
    [kind |-> "message", text |-> msg, id |-> <<>>, name |-> "", email |-> ""]
UserBody(user) ==
    [kind |-> "user", text |-> "", id |-> Hex(user.ID),
     name |-> user.Name, email |-> user.Email]

NoResponse == [status |-> 0, body |-> ErrorBody("")]
NoWrite == [kind |-> "none", body |-> NoBody]

\* A goroutine with no request.  The last four fields are history: whether
\* the store failed the request's call, whether a document matched its id
\* when the call was made, the last write to its id the store had applied by
\* then (for a read), and whether a delete of its id had succeeded before it
\* arrived (for a read).
Idle ==
    [pc |-> "idle", op |-> "", path |-> <<>>, body |-> NoBody,
     id |-> NilObjectID, user |-> ZeroUser,
     spanStarted |-> 0, spanEnded |-> 0, spanUserID |-> <<>>,
     calls |-> <<>>, writes |-> 0, resp |-> NoResponse,
     fail |-> FALSE, found |-> FALSE, seen |-> NoWrite, afterDelete |-> FALSE]

\* tracer.Start(c.Request.Context(), name) at the entry of handler op.
Start(op, path, body) ==
    [Idle EXCEPT !.op = op, !.path = path, !.body = body, !.spanStarted = 1]

\* span.SetAttributes(attribute.String("user.id", id.Hex())).
SetUserID(rq, id) == [rq EXCEPT !.spanUserID = Hex(id)]

\* A faulty variant of End: the span is ended only where the handler succeeded, as
\* if span.End() were its last statement and not deferred.
EndOnSuccessOnly(rq) ==
    [rq EXCEPT !.spanEnded = IF rq.resp.status < StatusBadRequest THEN @ + 1 ELSE @,
               !.pc = "done"]

\* defer span.End(): runs as the handler returns, on every path.
End(rq) == [rq EXCEPT !.spanEnded = @ + 1, !.pc = "done"]

\* c.JSON(status, body) followed by the handler's return statement.
JSON(rq, status, body) ==
    [rq EXCEPT !.resp = [status |-> status, body |-> body],
               !.writes = @ + 1,
               !.pc = "return"]

\* The handler issues the collection call named name.
Call(rq, name) == [rq EXCEPT !.calls = Append(@, name)]

\* ---------------------------------------------------------------- handlers

\* createUser up to its collection call: the span is started and the body
\* bound; a body that does not bind is answered 400 with the error's text.
createUserParse(body) ==
    LET rq == Start("createUser", <<>>, body)
        bound == ShouldBindJSON(body)
    IN  IF bound.err
        THEN JSON(rq, StatusBadRequest, ErrorBody(bound.msg))
        ELSE [rq EXCEPT !.user = bound.user, !.pc = "exec"]

\* getUser up to its collection call: the span is started and the path's id
\* parsed; an id that does not parse is answered 400.
getUserParse(path) ==
    LET rq == Start("getUser", path, NoBody)
        parsed == ObjectIDFromHex(path)
    IN  IF parsed.err
        THEN JSON(rq, StatusBadRequest, ErrorBody("Invalid user ID"))
        ELSE [SetUserID(rq, parsed.id) EXCEPT !.id = parsed.id, !.pc = "exec"]

\* updateUser up to its collection call: the id is parsed first, then the
\* body is bound; either failure is answered 400.
updateUserParse(path, body) ==
    LET rq == Start("updateUser", path, body)
        parsed == ObjectIDFromHex(path)
        bound == ShouldBindJSON(body)
    IN  IF parsed.err
        THEN JSON(rq, StatusBadRequest, ErrorBody("Invalid user ID"))
        ELSE IF bound.err
        THEN JSON([SetUserID(rq, parsed.id) EXCEPT !.id = parsed.id],
                  StatusBadRequest, ErrorBody(bound.msg))
        ELSE [SetUserID(rq, parsed.id) EXCEPT
                 !.id = parsed.id, !.user = bound.user, !.pc = "exec"]

\* deleteUser up to its collection call.
deleteUserParse(path) ==
    LET rq == Start("deleteUser", path, NoBody)
        parsed == ObjectIDFromHex(path)
    IN  IF parsed.err
        THEN JSON(rq, StatusBadRequest, ErrorBody("Invalid user ID"))
        ELSE [SetUserID(rq, parsed.id) EXCEPT !.id = parsed.id, !.pc = "exec"]

\* What a handler's second half yields: the goroutine's new state, the
\* collection after the call, and whether the store applied a write.
Outcome(rq, coll, applied) == [rq |-> rq, coll |-> coll, applied |-> applied]

\* A faulty variant of createUserStore: a failed insert is tried once more before it
\* is answered.
createUserStoreRetry(rq, coll, n, fail) ==
    LET first == InsertOne(coll, rq.user, n, fail)
        res == IF first.err THEN InsertOne(coll, rq.user, n, FALSE) ELSE first
        called == IF first.err THEN Call(Call(rq, "InsertOne"), "InsertOne")
                               ELSE Call(rq, "InsertOne")
        user == [rq.user EXCEPT !.ID = res.InsertedID]
    IN  IF res.err
        THEN Outcome(JSON(called,
                          StatusInternalServerError,
                          ErrorBody("Failed to create user")),
                     res.coll, FALSE)
        ELSE Outcome(JSON(SetUserID([called EXCEPT !.user = user, !.id = user.ID],
                                    user.ID),
                          StatusCreated, UserBody(user)),
                     res.coll, TRUE)

\* createUser from InsertOne on: a failure is answered 500; otherwise the
\* inserted id is put into the user and the user is answered with 201.
createUserStore(rq, coll, n, fail) ==
    LET res == InsertOne(coll, rq.user, n, fail)
        called == Call(rq, "InsertOne")
        user == [rq.user EXCEPT !.ID = res.InsertedID]
    IN  IF res.err
        THEN Outcome(JSON(called,
                          StatusInternalServerError,
                          ErrorBody("Failed to create user")),
                     res.coll, FALSE)
        ELSE Outcome(JSON(SetUserID([called EXCEPT !.user = user, !.id = user.ID],
                                    user.ID),
                          StatusCreated, UserBody(user)),
                     res.coll, TRUE)

\* getUser from FindOne on: mongo.ErrNoDocuments is answered 404, any other
\* error 500, a found user 200.
getUserStore(rq, coll, fail) ==
    LET res == FindOne(coll, rq.id, fail)
        called == Call(rq, "FindOne")
    IN  IF res.err = "ErrNoDocuments"
        THEN Outcome(JSON(called, StatusNotFound, ErrorBody("User not found")),
                     coll, FALSE)
        ELSE IF res.err # "nil"
        THEN Outcome(JSON(called,
                          StatusInternalServerError,
                          ErrorBody("Failed to get user")),
                     coll, FALSE)
        ELSE Outcome(JSON([called EXCEPT !.user = res.user],
                          StatusOK, UserBody(res.user)),
                     coll, FALSE)

\* updateUser from UpdateOne on: $set of name and email from the bound user;
\* a failure is answered 500, MatchedCount 0 is answered 404, else 200.
updateUserStore(rq, coll, fail) ==
    LET res == UpdateOne(coll, rq.id, rq.user.Name, rq.user.Email, fail)
        called == Call(rq, "UpdateOne")
    IN  IF res.err
        THEN Outcome(JSON(called,
                          StatusInternalServerError,
                          ErrorBody("Failed to update user")),
                     res.coll, FALSE)
        ELSE IF res.MatchedCount = 0
        THEN Outcome(JSON(called, StatusNotFound, ErrorBody("User not found")),
                     res.coll, FALSE)
        ELSE Outcome(JSON(called, StatusOK, MessageBody("User updated successfully")),
                     res.coll, TRUE)

\* deleteUser from DeleteOne on: a failure is answered 500, DeletedCount 0 is
\* answered 404, else 200.
deleteUserStore(rq, coll, fail) ==
    LET res == DeleteOne(coll, rq.id, fail)
        called == Call(rq, "DeleteOne")
    IN  IF res.err
        THEN Outcome(JSON(called,
                          StatusInternalServerError,
                          ErrorBody("Failed to delete user")),
                     res.coll, FALSE)
        ELSE IF res.DeletedCount = 0
        THEN Outcome(JSON(called, StatusNotFound, ErrorBody("User not found")),
                     res.coll, FALSE)
        ELSE Outcome(JSON(called, StatusOK, MessageBody("User deleted successfully")),
                     res.coll, TRUE)

\* ----------------------------------------------------------------- actions

WriteOf(id) == IF id \in DOMAIN lastWrite THEN lastWrite[id] ELSE NoWrite

Written(id, kind, body) ==
    [x \in DOMAIN lastWrite \cup {id} |->
        IF x = id THEN [kind |-> kind, body |-> body] ELSE lastWrite[x]]

\* No returned handler is waiting for its release.
Quiet == \A r \in Slots : reqs[r].pc # "done"

Free(r) == reqs[r].pc = "idle" /\ Quiet

\* Creates in flight whose insert will have the driver generate an id.
AwaitingID == {r \in Slots : reqs[r].pc = "exec" /\ reqs[r].op = "createUser"
                              /\ reqs[r].user.ID = NilObjectID}

\* The handler's state once its parse phase has run: a request answered there
\* returns at once; one that goes on takes along, as history, whether a delete
\* of its id has already succeeded.
Entered(rq) ==
    IF rq.pc = "return"
    THEN End(rq)
    ELSE [rq EXCEPT !.afterDelete = (rq.op = "getUser" /\ rq.id \in everDeleted)]

\* The history of a call addressed to rq's id, taken as the call is made (the
\* last write to the id is kept for reads only).
Observed(rq, fail) ==
    [rq EXCEPT !.fail = fail,
               !.found = (Matching(collection, rq.id) # {}),
               !.seen = IF rq.op = "getUser" THEN WriteOf(rq.id) ELSE NoWrite]

\* POST /users arrives at goroutine r.
createUserEntry(r, body) ==
    /\ Free(r)
    /\ LET rq == createUserParse(body)
       IN  /\ (rq.pc = "exec" /\ rq.user.ID = NilObjectID)
                => oidCounter + Cardinality(AwaitingID) < MaxGenerated
           /\ reqs' = [reqs EXCEPT ![r] = Entered(rq)]
    /\ UNCHANGED <<collection, oidCounter, lastWrite, everDeleted>>

\* GET /users/:id arrives at goroutine r.
getUserEntry(r, path) ==
    /\ Free(r)
    /\ reqs' = [reqs EXCEPT ![r] = Entered(getUserParse(path))]
    /\ UNCHANGED <<collection, oidCounter, lastWrite, everDeleted>>

\* PUT /users/:id arrives at goroutine r.
updateUserEntry(r, path, body) ==
    /\ Free(r)
    /\ reqs' = [reqs EXCEPT ![r] = Entered(updateUserParse(path, body))]
    /\ UNCHANGED <<collection, oidCounter, lastWrite, everDeleted>>

\* DELETE /users/:id arrives at goroutine r.
deleteUserEntry(r, path) ==
    /\ Free(r)
    /\ reqs' = [reqs EXCEPT ![r] = Entered(deleteUserParse(path))]
    /\ UNCHANGED <<collection, oidCounter, lastWrite, everDeleted>>

\* createUser's InsertOne and what follows it, to the handler's return.  The driver takes the next
\* ObjectID for a user without one before it sends the insert.
createUserExec(r, fail) ==
    /\ Quiet
    /\ reqs[r].pc = "exec" /\ reqs[r].op = "createUser"
    /\ LET out == createUserStore(reqs[r], collection, oidCounter + 1, fail)
       IN  /\ collection' = out.coll
           /\ reqs' = [reqs EXCEPT ![r] = End([out.rq EXCEPT !.fail = fail])]
           /\ lastWrite' = IF out.applied
                           THEN Written(out.rq.id, "create", reqs[r].body)
                           ELSE lastWrite
    /\ oidCounter' = IF reqs[r].user.ID = NilObjectID
                     THEN oidCounter + 1 ELSE oidCounter
    /\ UNCHANGED everDeleted

\* getUser's FindOne and what follows it.
getUserExec(r, fail) ==
    /\ Quiet
    /\ reqs[r].pc = "exec" /\ reqs[r].op = "getUser"
    /\ LET out == getUserStore(reqs[r], collection, fail)
       IN  /\ collection' = out.coll
           /\ reqs' = [reqs EXCEPT ![r] = End(Observed(out.rq, fail))]
    /\ UNCHANGED <<oidCounter, lastWrite, everDeleted>>

\* updateUser's UpdateOne and what follows it.
updateUserExec(r, fail) ==
    /\ Quiet
    /\ reqs[r].pc = "exec" /\ reqs[r].op = "updateUser"
    /\ LET out == updateUserStore(reqs[r], collection, fail)
       IN  /\ collection' = out.coll
           /\ reqs' = [reqs EXCEPT ![r] = End(Observed(out.rq, fail))]
           /\ lastWrite' = IF out.applied
                           THEN Written(reqs[r].id, "update", reqs[r].body)
                           ELSE lastWrite
    /\ UNCHANGED <<oidCounter, everDeleted>>

\* deleteUser's DeleteOne and what follows it.
deleteUserExec(r, fail) ==
    /\ Quiet
    /\ reqs[r].pc = "exec" /\ reqs[r].op = "deleteUser"
    /\ LET out == deleteUserStore(reqs[r], collection, fail)
       IN  /\ collection' = out.coll
           /\ reqs' = [reqs EXCEPT ![r] = End(Observed(out.rq, fail))]
           /\ lastWrite' = IF out.applied
                           THEN Written(reqs[r].id, "delete", reqs[r].body)
                           ELSE lastWrite
           /\ everDeleted' = IF out.applied
                             THEN everDeleted \cup {reqs[r].id}
                             ELSE everDeleted
    /\ UNCHANGED oidCounter

\* The server has written the response of the handler that returned in
\* goroutine r; the goroutine is free for the next request.
release(r) ==
    /\ reqs[r].pc = "done"
    /\ reqs' = [reqs EXCEPT ![r] = Idle]
    /\ UNCHANGED <<collection, oidCounter, lastWrite, everDeleted>>

Init ==
    /\ collection = {}
    /\ oidCounter = 0
    /\ reqs = [r \in Slots |-> Idle]
    /\ lastWrite = [x \in {} |-> NoWrite]
    /\ everDeleted = {}

Next ==
    \E r \in Slots :
        \/ \E body \in CreateBodies : createUserEntry(r, body)
        \/ \E path \in Paths : getUserEntry(r, path)
        \/ \E path \in Paths, body \in UpdateBodies : updateUserEntry(r, path, body)
        \/ \E path \in Paths : deleteUserEntry(r, path)
        \/ \E fail \in BOOLEAN : createUserExec(r, fail)
        \/ \E fail \in BOOLEAN : getUserExec(r, fail)
        \/ \E fail \in BOOLEAN : updateUserExec(r, fail)
        \/ \E fail \in BOOLEAN : deleteUserExec(r, fail)
        \/ release(r)

Spec == Init /\ [][Next]_vars

\* ------------------------------------------------------------------ claims

Returned(r) == reqs[r].pc = "done"

IDRoutes == {"getUser", "updateUser", "deleteUser"}

\* A syntactically valid identifier string: 24 hex digits.
WellFormed(s) ==
    /\ Len(s) = 2 * ObjectIDBytes
    /\ \A i \in 1..Len(s) : IsHexDigit(s[i])

\* A body that is JSON and whose id, if it carries one, is an identifier.
Decodable(body) ==
    body.syntaxOk /\ ("id" \in body.has => WellFormed(body.id))

\* The name and e-mail address a payload states; a field it omits is "".
PayloadName(body) == IF "name" \in body.has THEN body.name ELSE ""
PayloadEmail(body) == IF "email" \in body.has THEN body.email ELSE ""

\* The collection call each handler makes.
CallOf(op) ==
    CASE op = "createUser" -> "InsertOne"
      [] op = "getUser" -> "FindOne"
      [] op = "updateUser" -> "UpdateOne"
      [] op = "deleteUser" -> "DeleteOne"

\* The text of each handler's 500 response.
FailureText(op) ==
    CASE op = "createUser" -> "Failed to create user"
      [] op = "getUser" -> "Failed to get user"
      [] op = "updateUser" -> "Failed to update user"
      [] op = "deleteUser" -> "Failed to delete user"

\* C1: a request of GET, PUT or DELETE /users/:id whose path id is not a
\* well-formed identifier is answered 400 and has made no collection call,
\* whatever its body.
C1_InvalidIDRejected ==
    \A r \in Slots :
        (Returned(r) /\ reqs[r].op \in IDRoutes /\ ~WellFormed(reqs[r].path))
            => /\ reqs[r].resp.status = StatusBadRequest
               /\ reqs[r].calls = <<>>

\* C1's case: a PUT with an id that is not hex and a body that would bind has
\* returned while the collection holds a user.
C1_Witness ==
    \E r \in Slots :
        /\ Returned(r) /\ reqs[r].op = "updateUser"
        /\ reqs[r].path = PathNotHex /\ reqs[r].body = BodyWithID
        /\ reqs[r].resp.status = StatusBadRequest
        /\ collection # {}

\* C2: a POST of a {name, email} payload that the store does not fail is
\* answered 201 with the payload and a 24-digit id under which the store holds
\* that create; and a GET that the store does not fail, of an id whose last
\* applied write is a create, is answered 200 with that id and the create's
\* name and e-mail address.
C2_CreateThenGet ==
    \A r \in Slots :
        /\ (Returned(r) /\ reqs[r].op = "createUser" /\ reqs[r].body.syntaxOk
              /\ "id" \notin reqs[r].body.has /\ ~reqs[r].fail)
            => /\ reqs[r].resp.status = StatusCreated
               /\ reqs[r].resp.body.kind = "user"
               /\ WellFormed(reqs[r].resp.body.id)
               /\ reqs[r].resp.body.id # Hex(NilObjectID)
               /\ reqs[r].resp.body.name = PayloadName(reqs[r].body)
               /\ reqs[r].resp.body.email = PayloadEmail(reqs[r].body)
               /\ \E id \in DOMAIN lastWrite :
                     /\ Hex(id) = reqs[r].resp.body.id
                     /\ lastWrite[id] = [kind |-> "create", body |-> reqs[r].body]
        /\ (Returned(r) /\ reqs[r].op = "getUser" /\ WellFormed(reqs[r].path)
              /\ ~reqs[r].fail /\ reqs[r].seen.kind = "create")
            => /\ reqs[r].resp.status = StatusOK
               /\ reqs[r].resp.body.kind = "user"
               /\ reqs[r].resp.body.id = Hex(reqs[r].id)
               /\ reqs[r].resp.body.name = PayloadName(reqs[r].seen.body)
               /\ reqs[r].resp.body.email = PayloadEmail(reqs[r].seen.body)

\* C2's case: a GET of the id a POST of {name: "A", email: "a@x.com"} was
\* given has returned 200.
C2_Witness ==
    \E r \in Slots :
        /\ Returned(r) /\ reqs[r].op = "getUser"
        /\ reqs[r].path = PathFirst
        /\ reqs[r].seen = [kind |-> "create", body |-> BodyFull]
        /\ reqs[r].resp.status = StatusOK
        /\ reqs[r].resp.body.email = "a@x.com"

\* C3: a GET, PUT (with a body that binds) or DELETE of a well-formed id that
\* matched no stored user when its call was made, and that the store did not
\* fail, is answered 404 {error: "User not found"}; 404 is answered in no other
\* case, and 500 only where the store failed.
C3_MissingIsNotFound ==
    \A r \in Slots :
        (Returned(r) /\ reqs[r].op \in IDRoutes /\ WellFormed(reqs[r].path)
           /\ (reqs[r].op = "updateUser" => Decodable(reqs[r].body)))
            => /\ (~reqs[r].fail /\ ~reqs[r].found)
                     => reqs[r].resp = [status |-> StatusNotFound,
                                        body |-> ErrorBody("User not found")]
               /\ reqs[r].resp.status = StatusNotFound
                     => (~reqs[r].fail /\ ~reqs[r].found)
               /\ reqs[r].resp.status = StatusInternalServerError
                     => reqs[r].fail

\* C3's case: a PUT with a body that binds, of an id that is well formed and
\* not stored, has returned 404 while another user is stored.
C3_Witness ==
    \E r \in Slots :
        /\ Returned(r) /\ reqs[r].op = "updateUser"
        /\ reqs[r].path = PathClientUpper /\ reqs[r].body = BodyNameOnly
        /\ ~reqs[r].found /\ ~reqs[r].fail
        /\ reqs[r].resp.status = StatusNotFound
        /\ collection # {}

\* C4: a PUT answered 200 leaves, under its id, exactly the payload's name and
\* e-mail address (a field the payload omits is ""); and a GET that the store
\* does not fail, of an id whose last applied write is an update, is answered
\* 200 with that id and the update's name and e-mail address.
C4_UpdateReplaces ==
    \A r \in Slots :
        /\ (Returned(r) /\ reqs[r].op = "updateUser"
              /\ reqs[r].resp.status = StatusOK)
            => Matching(collection, reqs[r].id)
                  = {Doc(reqs[r].id, PayloadName(reqs[r].body),
                         PayloadEmail(reqs[r].body))}
        /\ (Returned(r) /\ reqs[r].op = "getUser" /\ WellFormed(reqs[r].path)
              /\ ~reqs[r].fail /\ reqs[r].seen.kind = "update")
            => reqs[r].resp =
                  [status |-> StatusOK,
                   body |-> UserBody(User(reqs[r].id,
                                          PayloadName(reqs[r].seen.body),
                                          PayloadEmail(reqs[r].seen.body)))]

\* C4's case: a GET of an id last updated with {name: "B"} (no email) has
\* returned 200 with the e-mail address "".
C4_Witness ==
    \E r \in Slots :
        /\ Returned(r) /\ reqs[r].op = "getUser"
        /\ reqs[r].seen = [kind |-> "update", body |-> BodyNameOnly]
        /\ reqs[r].resp.status = StatusOK
        /\ reqs[r].resp.body.name = "B"
        /\ reqs[r].resp.body.email = ""

\* C5: a GET that arrives after a DELETE of its id was answered 200, and that
\* the store does not fail, is answered 404.
C5_DeletedStaysGone ==
    \A r \in Slots :
        (Returned(r) /\ reqs[r].op = "getUser" /\ reqs[r].afterDelete
           /\ ~reqs[r].fail)
            => reqs[r].resp.status = StatusNotFound

\* C6: a POST or PUT whose body is not JSON is answered 400 with an error
\* message and has made no collection call, and the step in which it is
\* answered leaves the collection as it was.
C6_MalformedBodyRejected ==
    /\ [](\A r \in Slots :
            (Returned(r) /\ reqs[r].op \in {"createUser", "updateUser"}
               /\ ~reqs[r].body.syntaxOk)
                => /\ reqs[r].resp.status = StatusBadRequest
                   /\ reqs[r].resp.body.kind = "error"
                   /\ reqs[r].resp.body.text # ""
                   /\ reqs[r].calls = <<>>)
    /\ [][\A r \in Slots :
            (~Returned(r) /\ reqs'[r].pc = "done"
               /\ reqs'[r].op \in {"createUser", "updateUser"}
               /\ ~reqs'[r].body.syntaxOk)
                => collection' = collection]_vars

\* C6's case: a PUT of a well-formed id with a body that is not JSON has
\* returned 400 while a user is stored.
C6_Witness ==
    \E r \in Slots :
        /\ Returned(r) /\ reqs[r].op = "updateUser"
        /\ reqs[r].path = PathFirst /\ reqs[r].body = BodyMalformed
        /\ reqs[r].resp.status = StatusBadRequest
        /\ collection # {}

\* C7: every stored user's id is one the driver generated, and no two stored
\* users share an id.
C7_IDsGeneratedAndUnique ==
    /\ \A d \in collection : \E k \in 1..oidCounter : d._id = NewObjectID(k)
    /\ \A d, e \in collection : d._id = e._id => d = e

\* C8: a handler in flight has started its span once and not ended it; a
\* handler that has returned has started and ended it exactly once, whatever
\* it answered.
C8_SpanEndedOnce ==
    \A r \in Slots :
        /\ reqs[r].pc = "exec"
              => (reqs[r].spanStarted = 1 /\ reqs[r].spanEnded = 0)
        /\ Returned(r)
              => (reqs[r].spanStarted = 1 /\ reqs[r].spanEnded = 1)

\* C8's case: an updateUser that the store failed has returned 500 with its
\* span ended.
C8_Witness ==
    \E r \in Slots :
        /\ Returned(r) /\ reqs[r].op = "updateUser" /\ reqs[r].fail
        /\ reqs[r].resp.status = StatusInternalServerError
        /\ reqs[r].spanEnded = 1

\* C9: a handler that has returned has written one response and made at most
\* one collection call: its own where the parse phase succeeded, none where it
\* failed; where the store failed the call, the response is 500 with the
\* handler's failure text.  A handler in flight has made no call yet.
C9_OneCallOneResponse ==
    \A r \in Slots :
        /\ reqs[r].pc = "exec" => (reqs[r].calls = <<>> /\ reqs[r].writes = 0)
        /\ Returned(r) =>
             LET parsed ==
                   /\ reqs[r].op \in IDRoutes => WellFormed(reqs[r].path)
                   /\ reqs[r].op \in {"createUser", "updateUser"}
                         => Decodable(reqs[r].body)
             IN  /\ reqs[r].writes = 1
                 /\ Len(reqs[r].calls) <= 1
                 /\ parsed => reqs[r].calls = <<CallOf(reqs[r].op)>>
                 /\ ~parsed => reqs[r].calls = <<>>
                 /\ reqs[r].fail
                       => reqs[r].resp =
                             [status |-> StatusInternalServerError,
                              body |-> ErrorBody(FailureText(reqs[r].op))]

\* C9's case: a createUser whose insert the store failed has returned 500
\* after its one InsertOne.
C9_Witness ==
    \E r \in Slots :
        /\ Returned(r) /\ reqs[r].op = "createUser" /\ reqs[r].fail
        /\ reqs[r].calls = <<"InsertOne">>
        /\ reqs[r].resp.status = StatusInternalServerError

\* C10: under any interleaving, a step changes no document but the one with
\* the id of the request that takes it; a user in a response has the id its
\* request was addressed to; and every stored document holds the name and
\* e-mail address of one payload, that of the last write the store applied to
\* its id.
C10_Isolation ==
    /\ [](\A d \in collection :
            /\ WriteOf(d._id).kind \in {"create", "update"}
            /\ d.name = PayloadName(WriteOf(d._id).body)
            /\ d.email = PayloadEmail(WriteOf(d._id).body))
    /\ [](\A r \in Slots :
            (Returned(r) /\ reqs[r].op = "getUser"
               /\ reqs[r].resp.body.kind = "user")
                => reqs[r].resp.body.id = Hex(ObjectIDFromHex(reqs[r].path).id))
    /\ [][\A d \in (collection \ collection') \cup (collection' \ collection) :
            \E r \in Slots :
                /\ reqs[r].pc = "exec" /\ reqs'[r].pc = "done"
                /\ d._id = reqs'[r].id]_vars

\* C10's case: of two PUTs of the same id in flight together, one has been
\* applied and answered 200 while the other, with another payload, has yet to
\* make its call, and a second user is stored.
C10_Witness ==
    \E r, q \in Slots :
        /\ Returned(r) /\ reqs[r].op = "updateUser"
        /\ reqs[r].resp.status = StatusOK /\ reqs[r].body = BodyNameOnly
        /\ reqs[q].pc = "exec" /\ reqs[q].op = "updateUser"
        /\ reqs[q].id = reqs[r].id /\ reqs[q].body = BodyWithID
        /\ Cardinality(collection) = 2

====
